---- MODULE Spec2Model ----
(***************************************************************************)
(* hour_logger (src/hours.py): an append-only CSV log of WAGE_SET,         *)
(* PAYMENT, START and END rows, replayed in full by every command.         *)
(*                                                                         *)
(* Numbers.  The program works in floats; the model works in exact         *)
(* integers.  Amounts and timestamps are integers, and total_earned holds  *)
(* 3600 times the program's value, so that (seconds/60/60) * wage is the   *)
(* integer seconds * wage.  Rounding of floats is outside the model.       *)
(*                                                                         *)
(* None is <<>> and a present value v is <<v>>.                            *)
(***************************************************************************)
EXTENDS Integers, Sequences, FiniteSets, TLC

VARIABLES
    log,      \* rows of the log file, in file order (rows read so far, in SpecReplay)
    exists,   \* os.path.isfile(LOG_FILE_PATH)
    now,      \* time.time()
    last,     \* what the last run of the program did
    pc,       \* position of prepare_report's loop: "idle", "loop", "returned", "raised"
    report,   \* prepare_report's local LogReport
    err       \* the exception prepare_report's loop raised

vars == <<log, exists, now, last, pc, report, err>>

(***************************** bounds **************************************)
MaxReplayLen == 4
MaxInitLen == 2
MaxLog == 4
MaxClock == 1

(***************************** values **************************************)
None == <<>>
Some(v) == <<v>>
Val(o) == o[1]

EventNames == {"WAGE_SET", "PAYMENT", "START", "END"}

\* One row of the file.  field says what the second column holds: "num" a
\* text float() parses (to val), "junk" a text it does not, "absent" no
\* second column at all.
Row(name, value) == [name |-> name, field |-> "num", val |-> value]

BadRows ==
    { [name |-> "BOGUS", field |-> "num", val |-> 1],
      [name |-> "PAYMENT", field |-> "junk", val |-> 0],
      [name |-> "START", field |-> "absent", val |-> 0] }

\* The rows a file that was edited by hand may hold, when the program is
\* run on it.
FileRows ==
    {Row(n, 1) : n \in EventNames}
        \cup {Row("START", 2), Row("PAYMENT", -1)}
        \cup BadRows

\* The rows prepare_report is replayed on, turn by turn.
RawRows ==
    {Row("WAGE_SET", v) : v \in {-1, 1, 2}}
        \cup {Row("PAYMENT", v) : v \in {-1, 1}}
        \cup {Row("START", v) : v \in {1, 2}}
        \cup {Row("END", v) : v \in {1, 2}}
        \cup BadRows

Cmds == {"bitbar", "info", "wage", "payment", "start", "end"}
ArgCmds == {"wage", "payment"}
ArgVals == {-1, 0, 1}
SetupWages == {-1, 1}

NoError == [exc |-> "none", msg |-> "none"]
ModeFail(m) == [exc |-> "ModeFailException", msg |-> m]
Uncaught(e) == [exc |-> e, msg |-> "traceback"]

(***************************** LogReport ***********************************)
LogReport(wage, started) ==
    [active_wage |-> wage, current_shift_started_at |-> started,
     total_earned |-> 0, total_paid |-> 0]

in_shift(r) == r.current_shift_started_at # None

has_active_wage(r) == r.active_wage # None

outstanding_payment(r) == r.total_earned - 3600 * r.total_paid

Abs(x) == IF x < 0 THEN -x ELSE x

Max(x, y) == IF x < y THEN y ELSE x

\* math.isclose(a, b, abs_tol=...) is called without rel_tol, which is then
\* 1e-09: abs(a - b) <= max(rel_tol * max(abs(a), abs(b)), abs_tol).  For
\* whole a and b, d <= 1e-09 * m is d <= m \div 10^9.
RelTolInverse == 1000000000

isclose(a, b, abs_tol) ==
    \/ Abs(a - b) <= abs_tol
    \/ Abs(a - b) <= Max(Abs(a), Abs(b)) \div RelTolInverse

\* not isclose(total_earned, total_paid, abs_tol=0.01), on two totals in one
\* unit, of which 0.01 is cent (whole, or rounded down).
Outstanding(earned, paid, cent) == ~isclose(earned, paid, cent)

\* On a report, whose total_earned is in 3600ths: 0.01 is 36.
has_outstanding_payment(r) == Outstanding(r.total_earned, 3600 * r.total_paid, 36)

\* The duration, or the exception the property raises.
current_shift_duration(r, t) ==
    IF r.current_shift_started_at = None
    THEN [err |-> NoError, value |-> None]
    ELSE IF t - Val(r.current_shift_started_at) < 0
         THEN [err |-> ModeFail("future_shift"), value |-> None]
         ELSE [err |-> NoError, value |-> Some(t - Val(r.current_shift_started_at))]

(***************************** read_log ************************************)
\* One row decoded: the name is looked up first, then float(log[1]).
read_log_row(row) ==
    IF row.name \notin EventNames
    THEN [err |-> ModeFail("unknown_event"), event |-> "none", value |-> 0]
    ELSE IF row.field = "absent"
    THEN [err |-> Uncaught("IndexError"), event |-> "none", value |-> 0]
    ELSE IF row.field = "junk"
    THEN [err |-> Uncaught("ValueError"), event |-> "none", value |-> 0]
    ELSE [err |-> NoError, event |-> row.name, value |-> row.val]

(***************************** prepare_report ******************************)
\* The WAGE_SET branch of the loop.
ApplyWageSet_IgnoredInShift(r, value) ==
    IF in_shift(r)
    THEN [err |-> NoError, report |-> r]
    ELSE [err |-> NoError, report |-> [r EXCEPT !.active_wage = Some(value)]]

ApplyWageSet_RejectedInShift(r, value) ==
    IF in_shift(r)
    THEN [err |-> ModeFail("wage_while_shift"), report |-> r]
    ELSE [err |-> NoError, report |-> [r EXCEPT !.active_wage = Some(value)]]

ApplyWageSet(r, value) ==
    [err |-> NoError, report |-> [r EXCEPT !.active_wage = Some(value)]]

\* The PAYMENT branch.
ApplyPayment(r, value) ==
    [err |-> NoError, report |-> [r EXCEPT !.total_paid = @ + value]]

\* The START branch.
ApplyStart_NoOpenCheck(r, value) ==
    IF r.active_wage = None
    THEN [err |-> ModeFail("shift_before_wage"), report |-> r]
    ELSE [err |-> NoError,
          report |-> [r EXCEPT !.current_shift_started_at = Some(value)]]

ApplyStart_NoWageCheck(r, value) ==
    IF in_shift(r)
    THEN [err |-> ModeFail("two_starts"), report |-> r]
    ELSE [err |-> NoError,
          report |-> [r EXCEPT !.current_shift_started_at = Some(value)]]

ApplyStart(r, value) ==
    IF in_shift(r)
    THEN [err |-> ModeFail("two_starts"), report |-> r]
    ELSE IF r.active_wage = None
    THEN [err |-> ModeFail("shift_before_wage"), report |-> r]
    ELSE [err |-> NoError,
          report |-> [r EXCEPT !.current_shift_started_at = Some(value)]]

\* The END branch.  The shift is closed before the duration is tested.
ApplyEnd_NoDurationCheck(r, value) ==
    IF ~in_shift(r)
    THEN [err |-> ModeFail("two_ends"), report |-> r]
    ELSE IF r.active_wage = None
    THEN [err |-> ModeFail("shift_before_wage"), report |-> r]
    ELSE [err |-> NoError,
          report |-> [r EXCEPT
              !.current_shift_started_at = None,
              !.total_earned = @ + (value - Val(r.current_shift_started_at))
                                       * Val(r.active_wage)]]

ApplyEnd_WageCheckedFirst(r, value) ==
    IF r.active_wage = None
    THEN [err |-> ModeFail("shift_before_wage"), report |-> r]
    ELSE IF ~in_shift(r)
    THEN [err |-> ModeFail("two_ends"), report |-> r]
    ELSE LET seconds == value - Val(r.current_shift_started_at)
             closed == [r EXCEPT !.current_shift_started_at = None]
         IN  IF seconds < 0
             THEN [err |-> ModeFail("negative_duration"), report |-> closed]
             ELSE [err |-> NoError,
                   report |-> [closed EXCEPT
                       !.total_earned = @ + seconds * Val(r.active_wage)]]

ApplyEnd(r, value) ==
    IF ~in_shift(r)
    THEN [err |-> ModeFail("two_ends"), report |-> r]
    ELSE IF r.active_wage = None
    THEN [err |-> ModeFail("shift_before_wage"), report |-> r]
    ELSE LET seconds == value - Val(r.current_shift_started_at)
             closed == [r EXCEPT !.current_shift_started_at = None]
         IN  IF seconds < 0
             THEN [err |-> ModeFail("negative_duration"), report |-> closed]
             ELSE [err |-> NoError,
                   report |-> [closed EXCEPT
                       !.total_earned = @ + seconds * Val(r.active_wage)]]

\* The body of prepare_report's loop for one decoded event.
ApplyEvent(r, event, value) ==
    CASE event = "WAGE_SET" -> ApplyWageSet(r, value)
      [] event = "PAYMENT" -> ApplyPayment(r, value)
      [] event = "START" -> ApplyStart(r, value)
      [] event = "END" -> ApplyEnd(r, value)

\* One turn of the loop: read_log yields the next row, the body applies it.
ReplayRow(r, row) ==
    LET d == read_log_row(row)
    IN  IF d.err # NoError
        THEN [err |-> d.err, report |-> r]
        ELSE ApplyEvent(r, d.event, d.value)

RECURSIVE replay_from(_, _, _)
replay_from(rows, i, r) ==
    IF i > Len(rows)
    THEN [err |-> NoError, report |-> Some(r)]
    ELSE LET s == ReplayRow(r, rows[i])
         IN  IF s.err # NoError
             THEN [err |-> s.err, report |-> None]
             ELSE replay_from(rows, i + 1, s.report)

\* The report of a whole file, or the exception the replay raised.
prepare_report(rows) == replay_from(rows, 1, LogReport(None, None))

(***************************** the log file ********************************)
\* The file: whether it is there, and its rows.
File(e, rows) == [exists |-> e, log |-> rows]

\* open(LOG_FILE_PATH, 'a') creates the file when it is missing.
write_log_Truncating(fs, event, value) == File(TRUE, <<Row(event, value)>>)

write_log(fs, event, value) == File(TRUE, Append(fs.log, Row(event, value)))

(***************************** read_sanitized_report ***********************)
\* expected is None, Some(TRUE) or Some(FALSE).  Every registered mode gives
\* both of expected_in_shift and if_shift_err or neither, so the ValueError
\* of the first lines is never raised.
read_sanitized_report_NoShiftCheck(rows, expected, shift_err) ==
    LET p == prepare_report(rows)
    IN  IF p.err # NoError
        THEN [err |-> p.err, report |-> None]
        ELSE IF ~has_active_wage(Val(p.report))
        THEN [err |-> ModeFail("no_wage"), report |-> None]
        ELSE [err |-> NoError, report |-> p.report]

read_sanitized_report_ShiftCheckFirst(rows, expected, shift_err) ==
    LET p == prepare_report(rows)
    IN  IF p.err # NoError
        THEN [err |-> p.err, report |-> None]
        ELSE IF expected # None /\ in_shift(Val(p.report)) # Val(expected)
        THEN [err |-> ModeFail(shift_err), report |-> None]
        ELSE IF ~has_active_wage(Val(p.report))
        THEN [err |-> ModeFail("no_wage"), report |-> None]
        ELSE [err |-> NoError, report |-> p.report]

read_sanitized_report_NoWageCheck(rows, expected, shift_err) ==
    LET p == prepare_report(rows)
    IN  IF p.err # NoError
        THEN [err |-> p.err, report |-> None]
        ELSE IF expected # None /\ in_shift(Val(p.report)) # Val(expected)
        THEN [err |-> ModeFail(shift_err), report |-> None]
        ELSE [err |-> NoError, report |-> p.report]

read_sanitized_report(rows, expected, shift_err) ==
    LET p == prepare_report(rows)
    IN  IF p.err # NoError
        THEN [err |-> p.err, report |-> None]
        ELSE IF ~has_active_wage(Val(p.report))
        THEN [err |-> ModeFail("no_wage"), report |-> None]
        ELSE IF expected # None /\ in_shift(Val(p.report)) # Val(expected)
        THEN [err |-> ModeFail(shift_err), report |-> None]
        ELSE [err |-> NoError, report |-> p.report]

(***************************** configure_as_new ****************************)
\* accept and wage are what prompt_until_success returns for the two
\* questions; the wage is parsed by float, so it may be negative.
\* The file is made before the first question is asked.
configure_as_new_FileBeforeAsking(fs, accept, wage) ==
    IF ~accept
    THEN [err |-> ModeFail("not_configured"), report |-> None,
          fs |-> File(TRUE, fs.log)]
    ELSE [err |-> NoError,
          report |-> Some(LogReport(Some(wage), None)),
          fs |-> write_log(fs, "WAGE_SET", wage)]

configure_as_new(fs, accept, wage) ==
    IF ~accept
    THEN [err |-> ModeFail("not_configured"), report |-> None, fs |-> fs]
    ELSE [err |-> NoError,
          report |-> Some(LogReport(Some(wage), None)),
          fs |-> write_log(fs, "WAGE_SET", wage)]

(***************************** the modes ***********************************)
\* The arguments of the register_mode decorators.
expected_in_shift(mode) ==
    CASE mode \in {"wage", "start"} -> Some(FALSE)
      [] mode = "end" -> Some(TRUE)
      [] OTHER -> None

if_shift_err(mode) ==
    CASE mode = "wage" -> "wage_while_shift"
      [] mode = "start" -> "start_while_shift"
      [] mode = "end" -> "end_without_shift"
      [] OTHER -> "none"

\* bitbar and info read current_shift_duration when a shift is open, and
\* print; nothing they print is modelled.
show(r, fs, t) ==
    [err |-> IF in_shift(r) THEN current_shift_duration(r, t).err ELSE NoError,
     fs |-> fs]

mode_fn(mode, arg, r, fs, t) ==
    CASE mode \in {"bitbar", "info"} -> show(r, fs, t)
      [] mode = "wage" -> [err |-> NoError, fs |-> write_log(fs, "WAGE_SET", arg)]
      [] mode = "payment" -> [err |-> NoError, fs |-> write_log(fs, "PAYMENT", arg)]
      [] mode = "start" -> [err |-> NoError, fs |-> write_log(fs, "START", t)]
      [] mode = "end" -> [err |-> NoError, fs |-> write_log(fs, "END", t)]

(***************************** register_mode.wrapper ***********************)
\* The mode writes before the report is validated.
wrapper_WritesBeforeValidation(mode, arg, fs, t, accept, setup_wage) ==
    LET got == IF fs.exists
               THEN LET s == read_sanitized_report(fs.log, expected_in_shift(mode),
                                                   if_shift_err(mode))
                    IN  [err |-> s.err, report |-> s.report, fs |-> fs]
               ELSE configure_as_new(fs, accept, setup_wage)
        m == mode_fn(mode, arg, LogReport(None, None), got.fs, t)
    IN  IF got.err # NoError
        THEN [got EXCEPT !.fs = IF fs.exists THEN m.fs ELSE fs]
        ELSE [err |-> mode_fn(mode, arg, Val(got.report), got.fs, t).err,
              report |-> got.report, fs |-> m.fs]

wrapper(mode, arg, fs, t, accept, setup_wage) ==
    LET got == IF fs.exists
               THEN LET s == read_sanitized_report(fs.log, expected_in_shift(mode),
                                                   if_shift_err(mode))
                    IN  [err |-> s.err, report |-> s.report, fs |-> fs]
               ELSE configure_as_new(fs, accept, setup_wage)
    IN  IF got.err # NoError
        THEN got
        ELSE LET m == mode_fn(mode, arg, Val(got.report), got.fs, t)
             IN  [err |-> m.err, report |-> got.report, fs |-> m.fs]

(***************************** App.run *************************************)
\* argparse applies positive_float to the argument of wage and payment, and
\* exits with code 2 when it raises ValueError.
positive_float(val) ==
    IF val < 0 THEN [err |-> Uncaught("ValueError"), num |-> 0]
    ELSE [err |-> NoError, num |-> val]

\* The first mode whose parsed attribute is truthy, else registered_modes[0],
\* which is bitbar.  A flag given is True; an argument is its float.
matching_mode(cmd, arg) ==
    IF cmd \in ArgCmds /\ arg = 0 THEN "bitbar" ELSE cmd

ExitCode(e) ==
    CASE e.exc = "none" -> 0
      [] e.exc = "ModeFailException" -> 3
      [] e.exc = "SystemExit" -> 2
      [] OTHER -> 1

\* One run of the program: the mode that ran, the exception that ended it,
\* the report the mode was given and the file afterwards.
run(cmd, arg, fs, t, accept, setup_wage) ==
    IF cmd \in ArgCmds /\ positive_float(arg).err # NoError
    THEN [mode |-> "none", err |-> [exc |-> "SystemExit", msg |-> "argparse"],
          report |-> None, fs |-> fs]
    ELSE LET mode == matching_mode(cmd, arg)
             w == wrapper(mode, arg, fs, t, accept, setup_wage)
         IN  [mode |-> mode, err |-> w.err, report |-> w.report, fs |-> w.fs]

(***************************** the state machine ***************************)
SeqsUpTo(S, n) == UNION {[1..k -> S] : k \in 0..n}

NoRun ==
    [cmd |-> "none", arg |-> 0, mode |-> "none", existed |-> FALSE,
     before |-> <<>>, code |-> 0, err |-> NoError, report |-> None]

\* A file that is missing, or one with any rows: the file is the user's and
\* may have been edited by hand.
Init ==
    /\ exists \in BOOLEAN
    /\ log \in (IF exists THEN SeqsUpTo(FileRows, MaxInitLen) ELSE {<<>>})
    /\ now = 0
    /\ last = NoRun
    /\ pc = "idle"
    /\ report = LogReport(None, None)
    /\ err = NoError

\* The program has never run: no file.
InitFresh ==
    /\ exists = FALSE
    /\ log = <<>>
    /\ now = 0
    /\ last = NoRun
    /\ pc = "idle"
    /\ report = LogReport(None, None)
    /\ err = NoError

\* The program is run once, from the command line, to its exit.
Run(cmd, arg, accept, setup_wage) ==
    \E o \in {run(cmd, arg, File(exists, log), now, accept, setup_wage)} :
        /\ pc = "idle"
        /\ Len(o.fs.log) <= MaxLog
        /\ log' = o.fs.log
        /\ exists' = o.fs.exists
        /\ last' = [cmd |-> cmd, arg |-> arg, mode |-> o.mode, existed |-> exists,
                    before |-> log, code |-> ExitCode(o.err), err |-> o.err,
                    report |-> o.report]
        /\ UNCHANGED <<now, pc, report, err>>

\* The answers to the two questions of configure_as_new, which are asked
\* only when there is no file.
SetupAnswers ==
    IF exists
    THEN {[accept |-> TRUE, wage |-> 1]}
    ELSE [accept : BOOLEAN, wage : SetupWages]

RunFlag == \E cmd \in Cmds \ ArgCmds, a \in SetupAnswers :
    Run(cmd, 0, a.accept, a.wage)

RunArg == \E cmd \in ArgCmds, arg \in ArgVals, a \in SetupAnswers :
    Run(cmd, arg, a.accept, a.wage)

\* The wall clock moves on between two runs.
Tick ==
    /\ pc = "idle"
    /\ now < MaxClock
    /\ now' = now + 1
    /\ UNCHANGED <<log, exists, last, pc, report, err>>

\* The wall clock is set back between two runs.
ClockBack ==
    /\ pc = "idle"
    /\ now > 0
    /\ now' = now - 1
    /\ UNCHANGED <<log, exists, last, pc, report, err>>

Next == RunFlag \/ RunArg \/ Tick \/ ClockBack

Spec == Init /\ [][Next]_vars

SpecFresh == InitFresh /\ [][Next]_vars

\* From no file, with a wall clock that never goes back.
NextForward == RunFlag \/ RunArg \/ Tick

SpecForward == InitFresh /\ [][NextForward]_vars

(***************************** the replay, turn by turn ********************)
\* prepare_report alone, on a file read row by row: log holds the rows
\* read_log has yielded so far.
InitReplay ==
    /\ exists = TRUE
    /\ log = <<>>
    /\ now = 0
    /\ last = NoRun
    /\ pc = "loop"
    /\ report = LogReport(None, None)
    /\ err = NoError

\* read_log yields the next row of the file and the loop body runs on it.
ReplayStep(row) ==
    /\ pc = "loop"
    /\ Len(log) < MaxReplayLen
    /\ log' = Append(log, row)
    /\ LET s == ReplayRow(report, row)
       IN  /\ err' = s.err
           /\ report' = s.report
           /\ pc' = IF s.err = NoError THEN "loop" ELSE "raised"
    /\ UNCHANGED <<exists, now, last>>

\* The file has no more rows: the loop ends and the report is returned.
ReplayReturn ==
    /\ pc = "loop"
    /\ pc' = "returned"
    /\ UNCHANGED <<log, exists, now, last, report, err>>

NextReplay == (\E row \in RawRows : ReplayStep(row)) \/ ReplayReturn

SpecReplay == InitReplay /\ [][NextReplay]_vars

(***************************** has_outstanding_payment alone ***************)
\* The property on its own, read on a report whose two totals are both in
\* cents, small and large.
CentTotals ==
    {0, 1, 2, 3, 5, 2000000000, 2000000001, 2000000002, 2000000003}

InitClose ==
    /\ exists = TRUE
    /\ log = <<>>
    /\ now = 0
    /\ last = NoRun
    /\ pc = "totals"
    /\ report \in {[LogReport(None, None) EXCEPT !.total_earned = e, !.total_paid = p] :
                      e \in CentTotals, p \in CentTotals}
    /\ err = NoError

ReadOutstanding ==
    /\ pc = "totals"
    /\ pc' = IF Outstanding(report.total_earned, report.total_paid, 1)
             THEN "outstanding" ELSE "settled"
    /\ UNCHANGED <<log, exists, now, last, report, err>>

NextClose == ReadOutstanding

SpecClose == InitClose /\ [][NextClose]_vars

(***************************** the rows of a log ***************************)
\* What a log says, read off its rows without replaying it.
IsEvent(row, name) == row.name = name /\ row.field = "num"

IsShiftEvent(row) == IsEvent(row, "START") \/ IsEvent(row, "END")

ShiftEvents(rows) == SelectSeq(rows, IsShiftEvent)

Alternates(s) ==
    \A i \in 1..Len(s) : s[i].name = (IF i % 2 = 1 THEN "START" ELSE "END")

OpenAfter(rows) == Len(ShiftEvents(rows)) % 2 = 1

WageSetBefore(rows, i) == \E j \in 1..(i - 1) : IsEvent(rows[j], "WAGE_SET")

\* The last row of the given name before row i (0 when there is none).
LastBefore(rows, i, name) ==
    LET js == {j \in 1..(i - 1) : IsEvent(rows[j], name)}
    IN  IF js = {} THEN 0 ELSE CHOOSE j \in js : \A k \in js : k <= j

\* Seconds of the shift that the END at row i closes.
ShiftSeconds(rows, i) == rows[i].val - rows[LastBefore(rows, i, "START")].val

\* 3600 times the earnings the log's completed shifts add up to, each at
\* the last wage set before its END.
RECURSIVE EarnedUpTo(_, _)
EarnedUpTo(rows, i) ==
    IF i = 0 THEN 0
    ELSE EarnedUpTo(rows, i - 1)
            + (IF IsEvent(rows[i], "END")
               THEN ShiftSeconds(rows, i) * rows[LastBefore(rows, i, "WAGE_SET")].val
               ELSE 0)

\* In SpecReplay: every row read so far went through the loop body.
Replayed == pc \in {"loop", "returned"}

\* In SpecReplay: the last row read raised; the rows before it went through.
RaisedRow == log[Len(log)]
RaisedPrefix == SubSeq(log, 1, Len(log) - 1)

(***************************** C1 ******************************************)
\* C1: in the replay at most one shift is open: a START replayed while a
\* shift is open raises the two-STARTs ModeFailException, an END replayed
\* while none is open raises the two-ENDs one, and in the rows a replay
\* has gone through START and END alternate, beginning with START, with
\* in_shift true exactly after a START.
C1_OneOpenShift ==
    /\ Replayed =>
          /\ Alternates(ShiftEvents(log))
          /\ in_shift(report) <=> OpenAfter(log)
    /\ pc = "raised" =>
          /\ (IsEvent(RaisedRow, "START") /\ OpenAfter(RaisedPrefix))
                => err = ModeFail("two_starts")
          /\ (IsEvent(RaisedRow, "END") /\ ~OpenAfter(RaisedPrefix))
                => err = ModeFail("two_ends")
          /\ prepare_report(log) = [err |-> err, report |-> None]

C1_Witness ==
    /\ pc = "raised"
    /\ err = ModeFail("two_starts")
    /\ IsEvent(RaisedRow, "START")
    /\ OpenAfter(RaisedPrefix)

(***************************** C2 ******************************************)
\* C2: a START or END row with no WAGE_SET row before it makes the replay
\* raise a ModeFailException; in the rows a replay has gone through, every
\* START and END has a WAGE_SET before it.
C2_WageBeforeShift ==
    /\ Replayed =>
          \A i \in 1..Len(log) : IsShiftEvent(log[i]) => WageSetBefore(log, i)
    /\ pc = "raised" =>
          ((IsShiftEvent(RaisedRow) /\ ~WageSetBefore(log, Len(log)))
              => /\ err.exc = "ModeFailException"
                 /\ err.msg \in {"shift_before_wage", "two_ends"})

C2_Witness ==
    /\ pc = "raised"
    /\ IsEvent(RaisedRow, "START")
    /\ ~WageSetBefore(log, Len(log))
    /\ err = ModeFail("shift_before_wage")

(***************************** C3 ******************************************)
\* C3: an END earlier than the START of the shift it closes raises the
\* negative-duration ModeFailException and no report is returned; that
\* exception is raised for no END at or after its START, so every shift a
\* replay has gone through lasts zero seconds or more.
C3_NoNegativeShift ==
    /\ Replayed =>
          \A i \in 1..Len(log) : IsEvent(log[i], "END") => ShiftSeconds(log, i) >= 0
    /\ pc = "raised" =>
          /\ (/\ IsEvent(RaisedRow, "END")
              /\ OpenAfter(RaisedPrefix)
              /\ ShiftSeconds(log, Len(log)) < 0)
                => /\ err = ModeFail("negative_duration")
                   /\ prepare_report(log).report = None
          /\ err.msg = "negative_duration" =>
                /\ IsEvent(RaisedRow, "END")
                /\ ShiftSeconds(log, Len(log)) < 0

C3_Witness ==
    /\ pc = "raised"
    /\ err = ModeFail("negative_duration")
    /\ RaisedRow = Row("END", 1)
    /\ RaisedPrefix[Len(RaisedPrefix)] = Row("START", 2)

\* A shift of zero seconds goes through.
C3_ZeroShiftReplayed ==
    /\ pc = "returned"
    /\ \E i \in 1..Len(log) : IsEvent(log[i], "END") /\ ShiftSeconds(log, i) = 0

(***************************** C4 ******************************************)
\* C4: total_earned is the sum, over the completed shifts, of the shift's
\* seconds times the last wage set before the shift's END (here times
\* 3600); an open shift adds nothing.
C4_EarnedAtEndWage ==
    Replayed => report.total_earned = EarnedUpTo(log, Len(log))

\* A wage set during a shift, differing from the wage at START, and the
\* shift closed after a positive time.
C4_Witness ==
    /\ pc = "returned"
    /\ Len(log) = 4
    /\ IsEvent(log[1], "WAGE_SET") /\ IsEvent(log[2], "START")
    /\ IsEvent(log[3], "WAGE_SET") /\ IsEvent(log[4], "END")
    /\ log[1].val # log[3].val
    /\ ShiftSeconds(log, 4) > 0
    /\ report.total_earned = ShiftSeconds(log, 4) * log[3].val

(***************************** C5 ******************************************)
\* C5: a WAGE_SET or PAYMENT row goes through the loop in every state and
\* never raises: WAGE_SET(v) sets active_wage to v and PAYMENT(v) adds v to
\* total_paid, and each leaves the other three fields as they were.
C5_Step ==
    (pc = "loop" /\ log' # log) =>
        LET row == log'[Len(log')]
        IN  /\ IsEvent(row, "WAGE_SET") =>
                  /\ pc' = "loop" /\ err' = NoError
                  /\ report'.active_wage = Some(row.val)
                  /\ report'.current_shift_started_at = report.current_shift_started_at
                  /\ report'.total_earned = report.total_earned
                  /\ report'.total_paid = report.total_paid
            /\ IsEvent(row, "PAYMENT") =>
                  /\ pc' = "loop" /\ err' = NoError
                  /\ report'.total_paid = report.total_paid + row.val
                  /\ report'.active_wage = report.active_wage
                  /\ report'.current_shift_started_at = report.current_shift_started_at
                  /\ report'.total_earned = report.total_earned

C5_WageAndPaymentAccepted == [][C5_Step]_vars

\* A WAGE_SET went through while a shift was open.
C5_Witness ==
    /\ pc = "loop"
    /\ Len(log) > 1
    /\ IsEvent(log[Len(log)], "WAGE_SET")
    /\ in_shift(report)
    /\ report.active_wage = Some(log[Len(log)].val)

(***************************** the last run ********************************)
\* The program was run and argparse accepted its arguments.
Ran == last.cmd # "none" /\ last.mode # "none"

RanOnFile == Ran /\ last.existed

\* The run added exactly this one kind of row to the file.
AppendedOne(name) ==
    /\ Len(log) = Len(last.before) + 1
    /\ SubSeq(log, 1, Len(last.before)) = last.before
    /\ IsEvent(log[Len(log)], name)

Untouched == log = last.before /\ exists = last.existed

\* What makes a log replay to a report with a wage, read off its rows.
WellFormed(row) == row.name \in EventNames /\ row.field = "num"

Validated(rows) ==
    /\ \A i \in 1..Len(rows) : WellFormed(rows[i])
    /\ Alternates(ShiftEvents(rows))
    /\ \A i \in 1..Len(rows) : IsShiftEvent(rows[i]) => WageSetBefore(rows, i)
    /\ \A i \in 1..Len(rows) : IsEvent(rows[i], "END") => ShiftSeconds(rows, i) >= 0
    /\ \E i \in 1..Len(rows) : IsEvent(rows[i], "WAGE_SET")

NoWageSetRow(rows) == \A i \in 1..Len(rows) : rows[i].name # "WAGE_SET"

OnlyPayments(rows) == \A i \in 1..Len(rows) : IsEvent(rows[i], "PAYMENT")

ShiftErrs == {"wage_while_shift", "start_while_shift", "end_without_shift"}

(***************************** C6 ******************************************)
\* C6: total_earned and total_paid never decrease as the log grows and are
\* never negative: the report a run is given has totals >= 0 and >= the
\* totals of every prefix of the log that replays.
C6_TotalsMonotone ==
    (last.cmd # "none" /\ last.report # None) =>
        LET r == Val(last.report)
        IN  /\ r.total_earned >= 0
            /\ r.total_paid >= 0
            /\ last.existed =>
                  \A k \in 0..Len(last.before) :
                      LET p == prepare_report(SubSeq(last.before, 1, k))
                      IN  p.err = NoError =>
                              /\ Val(p.report).total_earned <= r.total_earned
                              /\ Val(p.report).total_paid <= r.total_paid

(***************************** C7 ******************************************)
\* C7: on a file that exists, a mode runs only on a log that replays and
\* has a wage; on such a log start and wage fail with their own message
\* exactly when a shift is open and otherwise append their row, end fails
\* exactly when no shift is open and otherwise appends END, and payment,
\* info and bitbar never fail with a shift-state message.
C7_ShiftStateGate ==
    RanOnFile =>
        LET open == OpenAfter(last.before)
        IN  /\ ~Validated(last.before) => (last.code # 0 /\ Untouched)
            /\ Validated(last.before) =>
                  /\ last.mode = "wage" =>
                        IF open
                        THEN last.err = ModeFail("wage_while_shift") /\ Untouched
                        ELSE last.code = 0 /\ AppendedOne("WAGE_SET")
                  /\ last.mode = "start" =>
                        IF open
                        THEN last.err = ModeFail("start_while_shift") /\ Untouched
                        ELSE last.code = 0 /\ AppendedOne("START")
                  /\ last.mode = "end" =>
                        IF ~open
                        THEN last.err = ModeFail("end_without_shift") /\ Untouched
                        ELSE last.code = 0 /\ AppendedOne("END")
                  /\ last.mode = "payment" =>
                        last.code = 0 /\ AppendedOne("PAYMENT")
                  /\ last.mode \in {"info", "bitbar"} =>
                        last.err.msg \notin ShiftErrs /\ Untouched

C7_Witness ==
    /\ RanOnFile
    /\ Validated(last.before)
    /\ ~OpenAfter(last.before)
    /\ last.mode = "end"
    /\ last.err = ModeFail("end_without_shift")

(***************************** C8 ******************************************)
\* C8 as claimed: on a file that exists and has no WAGE_SET row, every run
\* fails with the no-WAGE_SET message (stated here for files whose rows all
\* decode).
C8_NoWageSetMessage ==
    (/\ RanOnFile
     /\ NoWageSetRow(last.before)
     /\ \A i \in 1..Len(last.before) : WellFormed(last.before[i]))
        => last.err = ModeFail("no_wage")

\* C8 as amended: a replay ends without a wage exactly on a file that is
\* empty or holds PAYMENT rows only; every run on such a file fails with
\* the no-WAGE_SET message, whatever shift state the mode expects, and the
\* file stays as it was.  A file with no WAGE_SET and a START or END row
\* fails too, inside the replay and with another error.
C8_NoWageAfterReplay ==
    RanOnFile =>
        LET p == prepare_report(last.before)
        IN  /\ (p.err = NoError /\ ~has_active_wage(Val(p.report)))
                  <=> OnlyPayments(last.before)
            /\ OnlyPayments(last.before) =>
                  /\ last.err = ModeFail("no_wage")
                  /\ last.code = 3
                  /\ Untouched
            /\ (NoWageSetRow(last.before) /\ ~OnlyPayments(last.before)) =>
                  /\ last.code # 0
                  /\ last.err.msg \notin {"no_wage"} \cup ShiftErrs
                  /\ Untouched

\* end, which expects an open shift, on a file of one PAYMENT.
C8_Witness ==
    /\ RanOnFile
    /\ last.mode = "end"
    /\ last.before = <<Row("PAYMENT", 1)>>
    /\ last.err = ModeFail("no_wage")

(***************************** C9 ******************************************)
\* C9: a run that ends in a ModeFailException (exit code 3) leaves the log
\* as it was: the same rows, and no file where there was none.
C9_FailureLeavesLog ==
    (last.cmd # "none" /\ last.err.exc = "ModeFailException") =>
        /\ last.code = 3
        /\ Untouched

\* start refused while a shift is open.
C9_Witness ==
    /\ RanOnFile
    /\ last.cmd = "start"
    /\ last.err = ModeFail("start_while_shift")
    /\ Len(last.before) > 0
    /\ log = last.before

(***************************** C10 *****************************************)
\* C10, for a file that exists: a run of wage, payment, start or end that
\* exits with code 0 has added exactly one row, of that command's kind.
C10_ExactlyOneAppend ==
    (last.existed /\ last.code = 0) =>
        /\ last.cmd = "wage" => AppendedOne("WAGE_SET")
        /\ last.cmd = "payment" => AppendedOne("PAYMENT")
        /\ last.cmd = "start" => AppendedOne("START")
        /\ last.cmd = "end" => AppendedOne("END")

\* C10, for a first run as well.
C10_ExactlyOneAppendFirstRun ==
    (~last.existed /\ last.code = 0) =>
        /\ last.cmd = "wage" => AppendedOne("WAGE_SET")
        /\ last.cmd = "payment" => AppendedOne("PAYMENT")
        /\ last.cmd = "start" => AppendedOne("START")
        /\ last.cmd = "end" => AppendedOne("END")

(***************************** C11 *****************************************)
\* C11: a row with an unknown event name, or with a value that does not
\* parse or is missing, makes the run end in a ModeFailException, exit
\* code 3, with no report.
C11_MalformedRowIsCorruption ==
    (RanOnFile /\ \E i \in 1..Len(last.before) : ~WellFormed(last.before[i])) =>
        /\ last.err.exc = "ModeFailException"
        /\ last.code = 3
        /\ last.report = None

(***************************** C12 *****************************************)
\* The START value of the shift a log leaves open.
OpenShiftStart(rows) == rows[LastBefore(rows, Len(rows) + 1, "START")].val

\* C12: when a shift is open and the clock is earlier than its START, the
\* run of info, bitbar or end fails with a ModeFailException and leaves the
\* log as it was; so end appends no END earlier than the open START.
C12_Step ==
    (/\ exists
     /\ Validated(log)
     /\ OpenAfter(log)
     /\ now < OpenShiftStart(log)
     /\ last' # last
     /\ last'.mode \in {"info", "bitbar", "end"})
        => /\ last'.err.exc = "ModeFailException"
           /\ log' = log

C12_FutureShiftFails == [][C12_Step]_vars

(***************************** C13 *****************************************)
\* C13: every WAGE_SET and PAYMENT row the program writes holds an amount
\* of zero or more.  (From no file, every row of the log is the program's.)
C13_AmountsNonNegative ==
    \A i \in 1..Len(log) :
        (IsEvent(log[i], "WAGE_SET") \/ IsEvent(log[i], "PAYMENT")) => log[i].val >= 0

(***************************** C14 *****************************************)
IsPrefix(s, t) == Len(s) <= Len(t) /\ SubSeq(t, 1, Len(s)) = s

\* C14: the log is append-only: over every step, of a run that succeeds or
\* fails, the rows before are a prefix of the rows after, and a file that
\* was there is still there.
C14_Step ==
    /\ IsPrefix(log, log')
    /\ Len(log') >= Len(log)
    /\ exists => exists'

C14_AppendOnly == [][C14_Step]_vars

\* A run added its row to a log of two rows or more, which it kept.
C14_Witness ==
    /\ RanOnFile
    /\ last.code = 0
    /\ Len(last.before) >= 2
    /\ Len(log) = Len(last.before) + 1
    /\ IsPrefix(last.before, log)

(***************************** C15 *****************************************)
\* C15: with no file, a run goes through first-run setup: declined, it
\* ends in the not-configured ModeFailException and there is still no
\* file; accepted, the file is there and its first row is the WAGE_SET of
\* the wage the mode's report holds.  So a file the program made always
\* begins with a WAGE_SET row.
C15_FirstRunSetup ==
    /\ exists => (Len(log) >= 1 /\ IsEvent(log[1], "WAGE_SET"))
    /\ (Ran /\ ~last.existed) =>
          IF last.err # NoError
          THEN /\ last.err = ModeFail("not_configured")
               /\ last.code = 3
               /\ ~exists
               /\ log = <<>>
          ELSE /\ exists
               /\ IsEvent(log[1], "WAGE_SET")
               /\ last.report = Some(LogReport(Some(log[1].val), None))

\* Setup was declined.
C15_Witness ==
    /\ Ran
    /\ ~last.existed
    /\ last.err = ModeFail("not_configured")
    /\ ~exists

\* Setup was accepted.
C15_Accepted ==
    /\ Ran
    /\ ~last.existed
    /\ last.code = 0
    /\ exists
    /\ IsEvent(log[1], "WAGE_SET")

(***************************** C16 *****************************************)
\* C16: has_outstanding_payment is true exactly when the two totals differ
\* by more than 0.01 (one cent), whatever their size.
C16_OutstandingOverOneCent ==
    pc \in {"outstanding", "settled"} =>
        (pc = "outstanding" <=> Abs(report.total_earned - report.total_paid) > 1)

\* The same for totals under ten million (10^9 cents), where it holds.
C16_BelowTenMillion ==
    (/\ pc \in {"outstanding", "settled"}
     /\ Max(report.total_earned, report.total_paid) < RelTolInverse)
        => (pc = "outstanding" <=> Abs(report.total_earned - report.total_paid) > 1)

(***************************** C18 *****************************************)
\* C18: from no file, with a clock that never goes back, the file the
\* program's own runs have made always replays and has a wage.
C18_OwnLogValidates ==
    exists =>
        /\ Validated(log)
        /\ read_sanitized_report(log, None, "none").err = NoError

(***************************** C19 *****************************************)
\* C19: once the file is there and does not replay to a report with a
\* wage, every run after that fails and the log stays as it is, for good:
\* over every step from such a state the rows and the file are unchanged,
\* and a run that was made did not exit with code 0.
C19_Step ==
    (exists /\ ~Validated(log)) =>
        /\ log' = log
        /\ exists'
        /\ last' # last => (last'.code # 0 /\ last'.before = log)

C19_CorruptionAbsorbing == [][C19_Step]_vars

\* payment 1, which expects no shift state, refused on a log that does
\* not replay.
C19_Witness ==
    /\ RanOnFile
    /\ ~Validated(last.before)
    /\ Len(last.before) > 0
    /\ last.cmd = "payment"
    /\ last.arg = 1
    /\ last.code # 0
    /\ log = last.before

(***************************** C20 *****************************************)
\* C20: at every step of every replay a report with an open shift has a
\* wage; so an END never raises the shift-event-before-any-WAGE_SET
\* ModeFailException, and an END read with no WAGE_SET row before it
\* raises the two-ENDs one.
C20_OpenShiftHasWage ==
    /\ in_shift(report) => has_active_wage(report)
    /\ (pc = "raised" /\ IsEvent(RaisedRow, "END")) =>
           /\ err # ModeFail("shift_before_wage")
           /\ ~WageSetBefore(log, Len(log)) => err = ModeFail("two_ends")

\* An END raised after rows that went through and hold no WAGE_SET.
C20_Witness ==
    /\ pc = "raised"
    /\ Len(log) > 1
    /\ IsEvent(RaisedRow, "END")
    /\ ~WageSetBefore(log, Len(log))
    /\ err = ModeFail("two_ends")

====
